---------------------------- MODULE Spec2Model ----------------------------
(***************************************************************************)
(* Model of parse_json.py: the JSONC comment stripper, the field          *)
(* flattener, the shading loop of the spreadsheet exporter, the LaTeX     *)
(* escaper and the control flow of main.                                  *)
(*                                                                         *)
(* A text is a sequence of one-character strings.  Python indices are     *)
(* kept 0-based in the lexer state; line[i] of the source is line[i + 1]  *)
(* here.                                                                   *)
(***************************************************************************)
EXTENDS Integers, Sequences, FiniteSets, TLC

VARIABLES
    text,       \* strip_jsonc_comments: the argument
    lines,      \* strip_jsonc_comments: text.split('\n')
    ln,         \* strip_jsonc_comments: number of lines already processed
    st,         \* strip_jsonc_comments: lexer locals after the last line
    result,     \* strip_jsonc_comments: the list of cleaned lines
    out,        \* strip_jsonc_comments: the returned text
    spc,        \* strip_jsonc_comments: position ("idle", "start", "lines", "done")
    doc,        \* the parsed Document handed to flatten_fields
    entries,    \* flatten_fields' result, export_to_ods' flattened_entries
    max_depth,      \* export_to_ods: the longest path
    shaded_levels,  \* export_to_ods: number of shaded path columns
    level_states,   \* export_to_ods: per shaded column, prev and index
    value_state,    \* export_to_ods: prev_nonempty and index of the value column
    row,        \* export_to_ods: number of data rows already added
    table,      \* export_to_ods: the data rows added to the table
    epc,        \* flatten and export: position ("idle", "start", "flat", "rows", "saved")
    ltext,      \* escape_latex: the argument, then the text after each replace
    lin,        \* escape_latex: the argument as passed
    lidx,       \* escape_latex: number of replacements already applied
    lpc,        \* escape_latex: position ("idle", "loop", "returned")
    pc,         \* main: the statement about to run, "returned" or "raised" at its end
    ip,         \* main: whether the ip argument was given
    export_ods,     \* main: whether --export-ods was given
    export_latex,   \* main: whether --export-latex was given
    raw,        \* main: the text read from the ip file
    nocomments, \* main: strip_jsonc_comments(raw)
    data,       \* main: json.loads(nocomments)
    flattened,  \* main: flatten_fields(data), handed to export_to_ods
    log,        \* main: the stages run so far, each with how it ended
    printed     \* main: the diagnostics printed so far

stripVars == <<text, lines, ln, st, result, out, spc>>

exportVars == <<doc, entries, max_depth, shaded_levels, level_states, value_state, row, table, epc>>

latexVars == <<ltext, lin, lidx, lpc>>

mainVars == <<pc, ip, export_ods, export_latex, raw, nocomments, data, flattened, log, printed>>

vars == <<stripVars, exportVars, latexVars, mainVars>>

-----------------------------------------------------------------------------
(* Bounds *)

\* longest generated input text of the stripper
MaxLen == 5

\* most nodes (containers and leaves) of a generated Document
MaxNodes == 4

\* longest generated argument of escape_latex
MaxEscLen == 2

-----------------------------------------------------------------------------
(* Characters *)

QUOTE == "\""
BSLASH == "\\"
SLASH == "/"
STAR == "*"
NL == "\n"

\* the alphabet the generated texts are drawn from
Chars == {SLASH, STAR, QUOTE, BSLASH, NL, "a"}

-----------------------------------------------------------------------------
(* strip_jsonc_comments *)

\* text.split('\n'): k newlines give k + 1 lines
RECURSIVE SplitFrom(_, _, _)
SplitFrom(t, k, cur) ==
    IF k > Len(t) THEN <<cur>>
    ELSE IF t[k] = NL THEN <<cur>> \o SplitFrom(t, k + 1, <<>>)
    ELSE SplitFrom(t, k + 1, Append(cur, t[k]))

SplitLines(t) == SplitFrom(t, 1, <<>>)

\* a join that drops empty lines
RECURSIVE JoinLines_SkipEmpty(_)
JoinLines_SkipEmpty(ls) ==
    IF ls = <<>> THEN <<>>
    ELSE IF Len(ls) = 1 THEN ls[1]
    ELSE IF ls[1] = <<>> THEN JoinLines_SkipEmpty(Tail(ls))
    ELSE ls[1] \o <<NL>> \o JoinLines_SkipEmpty(Tail(ls))

\* a join with no separator between the lines
RECURSIVE JoinLines_NoSeparator(_)
JoinLines_NoSeparator(ls) ==
    IF ls = <<>> THEN <<>> ELSE ls[1] \o JoinLines_NoSeparator(Tail(ls))

\* '\n'.join(result)
RECURSIVE JoinLines(_)
JoinLines(ls) ==
    IF ls = <<>> THEN <<>>
    ELSE IF Len(ls) = 1 THEN ls[1]
    ELSE ls[1] \o <<NL>> \o JoinLines(Tail(ls))

\* the locals of the per-line loop, with brk set once a break was taken
LexState(i, in_string, escape_next, cleaned, brk) ==
    [i |-> i, in_string |-> in_string, escape_next |-> escape_next,
     cleaned |-> cleaned, brk |-> brk]

\* the per-line initialisation forgets in_string
NewLineState_KeepString(prev) ==
    LexState(0, prev.in_string, prev.escape_next, <<>>, FALSE)

\* cleaned = [], in_string = False, escape_next = False, i = 0: the locals
\* of the previous line are overwritten at the top of every iteration
NewLineState(prev) == LexState(0, FALSE, FALSE, <<>>, FALSE)

\* line[i:i+2] == pair, with the guard i + 1 < len(line)
StartsWith(line, i, c1, c2) ==
    /\ i + 1 < Len(line)
    /\ line[i + 1] = c1
    /\ line[i + 2] = c2

\* a find that accepts a closing */ overlapping the opening /*
FindClose_Overlap(line, from) ==
    LET hits == {k \in (from - 1)..(Len(line) - 2) : k >= 0 /\ StartsWith(line, k, STAR, SLASH)}
    IN  IF hits = {} THEN -1
        ELSE CHOOSE k \in hits : \A j \in hits : k <= j

\* line.find('*/', from): the least index >= from where */ starts, or -1
FindClose(line, from) ==
    LET hits == {k \in from..(Len(line) - 2) : StartsWith(line, k, STAR, SLASH)}
    IN  IF hits = {} THEN -1
        ELSE CHOOSE k \in hits : \A j \in hits : k <= j

\* a backslash test that never arms the escape
IsEscapeChar_Never(char, in_string) == FALSE

\* char == '\\' and in_string
IsEscapeChar(char, in_string) == char = BSLASH /\ in_string

\* if in_string: copy the character
InStringCopy(in_string) == in_string

\* one iteration of the while loop over the characters of a line
LoopBody(line, s) ==
    LET char == line[s.i + 1] IN
    IF s.escape_next
        THEN LexState(s.i + 1, s.in_string, FALSE, Append(s.cleaned, char), FALSE)
    ELSE IF IsEscapeChar(char, s.in_string)
        THEN LexState(s.i + 1, s.in_string, TRUE, Append(s.cleaned, char), FALSE)
    ELSE IF char = QUOTE
        THEN LexState(s.i + 1, ~s.in_string, s.escape_next, Append(s.cleaned, char), FALSE)
    ELSE IF InStringCopy(s.in_string)
        THEN LexState(s.i + 1, s.in_string, s.escape_next, Append(s.cleaned, char), FALSE)
    ELSE IF StartsWith(line, s.i, SLASH, SLASH)
        THEN [s EXCEPT !.brk = TRUE]
    ELSE IF StartsWith(line, s.i, SLASH, STAR)
        THEN LET close_idx == FindClose(line, s.i + 2) IN
             IF close_idx # -1
                THEN [s EXCEPT !.i = close_idx + 2]
                ELSE [s EXCEPT !.brk = TRUE]
    ELSE LexState(s.i + 1, s.in_string, s.escape_next, Append(s.cleaned, char), FALSE)

\* while i < len(line): ... until the condition fails or a break is taken
RECURSIVE ScanLine(_, _)
ScanLine(line, s) ==
    IF s.i < Len(line) /\ ~s.brk THEN ScanLine(line, LoopBody(line, s)) ELSE s

\* the state of the locals before the first line
NoLine == LexState(0, FALSE, FALSE, <<>>, FALSE)

\* for line in lines: ...; result.append(''.join(cleaned))
RECURSIVE StripLines(_, _, _)
StripLines(ls, prev, acc) ==
    IF ls = <<>> THEN acc
    ELSE LET s == ScanLine(ls[1], NewLineState(prev))
         IN  StripLines(Tail(ls), s, Append(acc, s.cleaned))

strip_jsonc_comments(t) == JoinLines(StripLines(SplitLines(t), NoLine, <<>>))

-----------------------------------------------------------------------------
(* Inputs of the stripper *)

\* // comment\n{"x": "a//b", "y": 1} /* trailing */
ScenarioText ==
    <<"/", "/", " ", "c", "o", "m", "m", "e", "n", "t", NL,
      "{", QUOTE, "x", QUOTE, ":", " ", QUOTE, "a", "/", "/", "b", QUOTE, ",", " ",
      QUOTE, "y", QUOTE, ":", " ", "1", "}", " ",
      "/", "*", " ", "t", "r", "a", "i", "l", "i", "n", "g", " ", "*", "/">>

\* \n{"x": "a//b", "y": 1} followed by one space
ScenarioStripped ==
    <<NL,
      "{", QUOTE, "x", QUOTE, ":", " ", QUOTE, "a", "/", "/", "b", QUOTE, ",", " ",
      QUOTE, "y", QUOTE, ":", " ", "1", "}", " ">>

\* a comment opened on one line and closed two lines below
MultiLineCommentText ==
    <<"a", "/", "*", "a", NL, "a", QUOTE, "a", NL, "a", "*", "/", "a">>

\* a string holding an escaped quote and both comment openers, then a comment
EscapedQuoteText ==
    <<QUOTE, "a", BSLASH, QUOTE, "/", "/", "/", "*", QUOTE, "a", "/", "*", "a", "*", "/", "a">>

Texts ==
    UNION {[1..n -> Chars] : n \in 0..MaxLen}
        \cup {ScenarioText, MultiLineCommentText, EscapedQuoteText}

-----------------------------------------------------------------------------
(* Documents: the values json.loads returns *)

Null == [t |-> "null"]
Num(n) == [t |-> "num", v |-> n]
Str(s) == [t |-> "str", v |-> s]
Bool(b) == [t |-> "bool", v |-> b]
\* a dict: its members in key-declaration order, keys distinct
Obj(m) == [t |-> "obj", m |-> m]
\* a list
Arr(e) == [t |-> "arr", e |-> e]
Member(k, v) == [k |-> k, v |-> v]

IsDict(d) == d.t = "obj"
IsList(d) == d.t = "arr"

\* str(value) of a leaf other than None
PyStr(d) ==
    IF d.t = "num" THEN ToString(d.v)
    ELSE IF d.t = "bool" THEN (IF d.v THEN "True" ELSE "False")
    ELSE d.v

-----------------------------------------------------------------------------
(* flatten_fields *)

\* f"[{idx}]"
IndexMarker(idx) == "[" \o ToString(idx) \o "]"

Entry(path, value) == [path |-> path, value |-> value]

RECURSIVE flatten_fields(_, _), FlattenItems(_, _, _, _)

\* an items loop that puts each member's entries in front of the earlier ones
RECURSIVE FlattenItems_Prepend(_, _, _, _)
FlattenItems_Prepend(d, idx, path, acc) ==
    IF IsDict(d)
    THEN IF idx >= Len(d.m) THEN acc
         ELSE FlattenItems_Prepend(d, idx + 1, path,
                  flatten_fields(d.m[idx + 1].v, Append(path, d.m[idx + 1].k)) \o acc)
    ELSE IF idx >= Len(d.e) THEN acc
         ELSE FlattenItems_Prepend(d, idx + 1, path,
                  flatten_fields(d.e[idx + 1], Append(path, IndexMarker(idx))) \o acc)

\* for key, value in data.items() / for idx, value in enumerate(data):
\*     entries.extend(flatten_fields(value, [*path, segment]))
FlattenItems(d, idx, path, acc) ==
    IF IsDict(d)
    THEN IF idx >= Len(d.m) THEN acc
         ELSE FlattenItems(d, idx + 1, path,
                  acc \o flatten_fields(d.m[idx + 1].v, Append(path, d.m[idx + 1].k)))
    ELSE IF idx >= Len(d.e) THEN acc
         ELSE FlattenItems(d, idx + 1, path,
                  acc \o flatten_fields(d.e[idx + 1], Append(path, IndexMarker(idx))))

\* flatten_fields(data, path), its data argument called d here
flatten_fields(d, path) ==
    IF IsDict(d) \/ IsList(d) THEN FlattenItems(d, 0, path, <<>>)
    ELSE <<Entry(path, d)>>

-----------------------------------------------------------------------------
(* Documents the flattener and the exporters run on *)

Keys == {"a", "b"}
Leaves == {Num(1), Num(2), Null}

\* the sequences of n distinct keys
KeySeqs(n) == {ks \in [1..n -> Keys] : \A i, j \in 1..n : i # j => ks[i] # ks[j]}

RECURSIVE TreesOf(_), ForestsOf(_)

\* the sequences of Documents with n nodes in all
ForestsOf(n) ==
    IF n = 0 THEN {<<>>}
    ELSE UNION {{<<d>> \o f : d \in TreesOf(k), f \in ForestsOf(n - k)} : k \in 1..n}

\* the Documents with exactly n nodes
TreesOf(n) ==
    (IF n = 1 THEN Leaves ELSE {})
        \cup {Arr(f) : f \in ForestsOf(n - 1)}
        \cup UNION {{Obj([i \in 1..Len(f) |-> Member(ks[i], f[i])]) : ks \in KeySeqs(Len(f))}
                        : f \in ForestsOf(n - 1)}

\* {"a": 1, "b": {"c": 2, "d": [3, 4]}}
ScenarioDoc ==
    Obj(<<Member("a", Num(1)),
          Member("b", Obj(<<Member("c", Num(2)),
                            Member("d", Arr(<<Num(3), Num(4)>>))>>))>>)

\* paths of six segments, the same leaf value on consecutive rows
DeepDoc ==
    Obj(<<Member("a", Obj(<<Member("b", Arr(<<Obj(<<Member("c",
              Obj(<<Member("d", Arr(<<Num(1), Num(1), Num(2)>>)),
                    Member("e", Arr(<<Num(2)>>))>>))>>)>>))>>)),
          Member("f", Num(2))>>)

\* empty and boolean leaves, an empty key, empty containers
OddLeavesDoc ==
    Obj(<<Member("a", Obj(<<Member("x", Str("")), Member("y", Str("1")),
                            Member("z", Num(1)), Member("", Bool(TRUE))>>)),
          Member("b", Obj(<<Member("x", Null), Member("y", Obj(<<>>)),
                            Member("z", Bool(FALSE)), Member("w", Arr(<<>>))>>)),
          Member("c", Arr(<<Str("1"), Str("1")>>))>>)

Docs ==
    UNION {TreesOf(n) : n \in 1..MaxNodes}
        \cup {ScenarioDoc, DeepDoc, OddLeavesDoc}

-----------------------------------------------------------------------------
(* export_to_ods: the shading of the data rows *)

\* LEVEL_COLOR_PALETTES: per path level, the two shades of its column
LEVEL_COLOR_PALETTES ==
    << <<"#f9d0d0", "#fde8e8">>,
       <<"#d6f2dc", "#edf9f0">>,
       <<"#d8e8fb", "#edf3fe">>,
       <<"#ebd8fb", "#f5edfe">> >>

\* VALUE_COLORS: the two shades of the value column
VALUE_COLORS == <<"#e4e4e4", "#f4f4f4">>

\* a cell created without a stylename
NoStyle == ""

Cell(txt, color) == [text |-> txt, color |-> color]

\* state["prev"] is None
None == <<>>

\* max((len(parts) for parts, _ in flattened_entries), default=0)
MaxDepthOf(es) ==
    IF es = <<>> THEN 0
    ELSE LET lens == {Len(es[k].path) : k \in 1..Len(es)}
         IN  CHOOSE m \in lens : \A x \in lens : x <= m

\* min(max_depth, len(LEVEL_COLOR_PALETTES))
ShadedLevels(md) == IF md < Len(LEVEL_COLOR_PALETTES) THEN md ELSE Len(LEVEL_COLOR_PALETTES)

\* segment = parts[depth] if depth < len(parts) else ""
SegmentAt(parts, depth) == IF depth < Len(parts) THEN parts[depth + 1] ELSE ""

\* a level state that changes shade on every non-empty row
NextLevelState_TogglePerRow(state, segment) ==
    IF segment # ""
    THEN [prev |-> <<segment>>,
          index |-> IF state.prev = None THEN 0 ELSE 1 - state.index]
    ELSE [state EXCEPT !.prev = None]

\* the update of level_states[depth] by one row, for depth < shaded_levels
NextLevelState(state, segment) ==
    IF segment # ""
    THEN [prev |-> <<segment>>,
          index |-> IF state.prev = None THEN 0
                    ELSE IF <<segment>> # state.prev THEN 1 - state.index
                    ELSE state.index]
    ELSE [state EXCEPT !.prev = None]

\* the cell of one path column: styled only for a non-empty segment of a
\* shaded level, with the shade the updated state holds
LevelCell(depth, segment, shaded, newState) ==
    IF segment # "" /\ depth < shaded
    THEN Cell(segment, LEVEL_COLOR_PALETTES[depth + 1][newState.index + 1])
    ELSE Cell(segment, NoStyle)

\* value_text = "" if value is None else str(value)
ValueText(value) == IF value.t = "null" THEN "" ELSE PyStr(value)

\* the update of value_state by one row
NextValueState(vs, value_text) ==
    IF value_text # ""
    THEN [prev_nonempty |-> TRUE,
          index |-> IF vs.prev_nonempty THEN 1 - vs.index ELSE 0]
    ELSE [vs EXCEPT !.prev_nonempty = FALSE]

ValueCell(value_text, newState) ==
    IF value_text # ""
    THEN Cell(value_text, VALUE_COLORS[newState.index + 1])
    ELSE Cell(value_text, NoStyle)

-----------------------------------------------------------------------------
(* export_to_latex: escape_latex *)

Chr(c) == <<c>>

\* the replacements dict, in insertion order
replacements ==
    <<[old |-> BSLASH, new |-> <<BSLASH, "t", "e", "x", "t", "b", "a", "c", "k", "s", "l", "a", "s", "h", "{", "}">>],
      [old |-> "&", new |-> <<BSLASH, "&">>],
      [old |-> "%", new |-> <<BSLASH, "%">>],
      [old |-> "$", new |-> <<BSLASH, "$">>],
      [old |-> "#", new |-> <<BSLASH, "#">>],
      [old |-> "_", new |-> <<BSLASH, "_">>],
      [old |-> "{", new |-> <<BSLASH, "{">>],
      [old |-> "}", new |-> <<BSLASH, "}">>],
      [old |-> "~", new |-> <<"$", BSLASH, "s", "i", "m", "$">>],
      [old |-> "<", new |-> <<"$", "<", "$">>],
      [old |-> ">", new |-> <<"$", ">", "$">>],
      [old |-> "^", new |-> <<BSLASH, "t", "e", "x", "t", "a", "s", "c", "i", "i", "c", "i", "r", "c", "u", "m", "{", "}">>]>>

\* text.replace(old, new) for a one-character old
RECURSIVE Replace(_, _, _)
Replace(t, old, new) ==
    IF t = <<>> THEN <<>>
    ELSE (IF t[1] = old THEN new ELSE Chr(t[1])) \o Replace(Tail(t), old, new)

\* the characters the generated arguments are drawn from
EscChars == {replacements[k].old : k \in 1..Len(replacements)} \cup {"a"}

EscTexts == UNION {[1..n -> EscChars] : n \in 0..MaxEscLen}

-----------------------------------------------------------------------------
(* The states in which a component is not running *)

StripIdle ==
    /\ text = <<>>
    /\ lines = <<>>
    /\ ln = 0
    /\ st = NoLine
    /\ result = <<>>
    /\ out = <<>>
    /\ spc = "idle"

ExportIdle ==
    /\ doc = Null
    /\ entries = <<>>
    /\ max_depth = 0
    /\ shaded_levels = 0
    /\ level_states = <<>>
    /\ value_state = [prev_nonempty |-> FALSE, index |-> 0]
    /\ row = 0
    /\ table = <<>>
    /\ epc = "idle"

LatexIdle ==
    /\ ltext = <<>>
    /\ lin = <<>>
    /\ lidx = 0
    /\ lpc = "idle"

MainIdle ==
    /\ pc = "idle"
    /\ ip = FALSE
    /\ export_ods = FALSE
    /\ export_latex = FALSE
    /\ raw = <<>>
    /\ nocomments = <<>>
    /\ data = Null
    /\ flattened = <<>>
    /\ log = <<>>
    /\ printed = <<>>

-----------------------------------------------------------------------------
(* The stripper as a state machine: split, one step per line, join *)

StripInit ==
    /\ text \in Texts
    /\ lines = <<>>
    /\ ln = 0
    /\ st = NoLine
    /\ result = <<>>
    /\ out = <<>>
    /\ spc = "start"
    /\ ExportIdle
    /\ LatexIdle
    /\ MainIdle

\* lines = text.split('\n'); result = []
Split ==
    /\ spc = "start"
    /\ lines' = SplitLines(text)
    /\ spc' = "lines"
    /\ UNCHANGED <<text, ln, st, result, out>>
    /\ UNCHANGED <<exportVars, latexVars, mainVars>>

\* one iteration of the for loop over the lines
ProcessLine ==
    /\ spc = "lines"
    /\ ln < Len(lines)
    /\ st' = ScanLine(lines[ln + 1], NewLineState(st))
    /\ result' = Append(result, st'.cleaned)
    /\ ln' = ln + 1
    /\ UNCHANGED <<text, lines, out, spc>>
    /\ UNCHANGED <<exportVars, latexVars, mainVars>>

\* return '\n'.join(result)
Join ==
    /\ spc = "lines"
    /\ ln = Len(lines)
    /\ out' = JoinLines(result)
    /\ spc' = "done"
    /\ UNCHANGED <<text, lines, ln, st, result>>
    /\ UNCHANGED <<exportVars, latexVars, mainVars>>

StripNext == Split \/ ProcessLine \/ Join

SpecStrip == StripInit /\ [][StripNext]_vars

-----------------------------------------------------------------------------
(* Flattening a Document and shading its rows, as main does for --export-ods:
   export_to_ods(flatten_fields(data), export_ods) *)

ExportInit ==
    /\ doc \in Docs
    /\ entries = <<>>
    /\ max_depth = 0
    /\ shaded_levels = 0
    /\ level_states = <<>>
    /\ value_state = [prev_nonempty |-> FALSE, index |-> 0]
    /\ row = 0
    /\ table = <<>>
    /\ epc = "start"
    /\ StripIdle
    /\ LatexIdle
    /\ MainIdle

\* flatten_fields(data)
Flatten ==
    /\ epc = "start"
    /\ entries' = flatten_fields(doc, <<>>)
    /\ epc' = "flat"
    /\ UNCHANGED <<doc, max_depth, shaded_levels, level_states, value_state, row, table>>
    /\ UNCHANGED <<stripVars, latexVars, mainVars>>

\* export_to_ods up to the row loop: max_depth, shaded_levels and the
\* initial shading states
OdsBegin ==
    /\ epc = "flat"
    /\ max_depth' = MaxDepthOf(entries)
    /\ shaded_levels' = ShadedLevels(max_depth')
    /\ level_states' = [d \in 1..shaded_levels' |-> [prev |-> None, index |-> 0]]
    /\ value_state' = [prev_nonempty |-> FALSE, index |-> 0]
    /\ epc' = "rows"
    /\ UNCHANGED <<doc, entries, row, table>>
    /\ UNCHANGED <<stripVars, latexVars, mainVars>>

\* one iteration of: for parts, value in flattened_entries
OdsRow ==
    /\ epc = "rows"
    /\ row < Len(entries)
    /\ LET parts == entries[row + 1].path
           value_text == ValueText(entries[row + 1].value)
       IN  /\ level_states' =
                 [d \in 1..shaded_levels |->
                     NextLevelState(level_states[d], SegmentAt(parts, d - 1))]
           /\ value_state' = NextValueState(value_state, value_text)
           /\ table' = Append(table,
                 [levels |-> [d \in 1..max_depth |->
                                 LevelCell(d - 1, SegmentAt(parts, d - 1), shaded_levels,
                                           IF d <= shaded_levels THEN level_states'[d]
                                           ELSE [prev |-> None, index |-> 0])],
                  value |-> ValueCell(value_text, value_state')])
    /\ row' = row + 1
    /\ UNCHANGED <<doc, entries, max_depth, shaded_levels, epc>>
    /\ UNCHANGED <<stripVars, latexVars, mainVars>>

\* doc.spreadsheet.addElement(table); doc.save(...)
OdsSave ==
    /\ epc = "rows"
    /\ row = Len(entries)
    /\ epc' = "saved"
    /\ UNCHANGED <<doc, entries, max_depth, shaded_levels, level_states, value_state, row, table>>
    /\ UNCHANGED <<stripVars, latexVars, mainVars>>

ExportNext == Flatten \/ OdsBegin \/ OdsRow \/ OdsSave

SpecExport == ExportInit /\ [][ExportNext]_vars

-----------------------------------------------------------------------------
(* escape_latex, one step per replacement *)

LatexInit ==
    /\ lin \in EscTexts
    /\ ltext = lin
    /\ lidx = 0
    /\ lpc = "loop"
    /\ StripIdle
    /\ ExportIdle
    /\ MainIdle

\* one iteration of: for old, new in replacements.items()
ReplaceOne ==
    /\ lpc = "loop"
    /\ lidx < Len(replacements)
    /\ ltext' = Replace(ltext, replacements[lidx + 1].old, replacements[lidx + 1].new)
    /\ lidx' = lidx + 1
    /\ UNCHANGED <<lin, lpc>>
    /\ UNCHANGED <<stripVars, exportVars, mainVars>>

\* return text
EscapeReturn ==
    /\ lpc = "loop"
    /\ lidx = Len(replacements)
    /\ lpc' = "returned"
    /\ UNCHANGED <<ltext, lin, lidx>>
    /\ UNCHANGED <<stripVars, exportVars, mainVars>>

LatexNext == ReplaceOne \/ EscapeReturn

SpecLatex == LatexInit /\ [][LatexNext]_vars

-----------------------------------------------------------------------------
(* main: the files it may read and what json.loads makes of them *)

\* [1] /* c */
ArrayText == <<"[", "1", "]", " ", "/", "*", " ", "c", " ", "*", "/">>

\* /* c */1
LeadingCommentText == <<"/", "*", " ", "c", " ", "*", "/", "1">>

\* {"a": 1 with the closing brace missing
TruncatedText == <<"{", QUOTE, "a", QUOTE, ":", "1">>

\* the contents the ip file may have
RawTexts ==
    {ScenarioText, ArrayText, LeadingCommentText, TruncatedText, MultiLineCommentText}

\* {"x": "a//b", "y": 1}
ScenarioParsed == Obj(<<Member("x", Str("a//b")), Member("y", Num(1))>>)

\* json.loads on the strict JSON texts the run can meet; any other text
\* raises JSONDecodeError
JsonTable ==
    {[text |-> ScenarioStripped, doc |-> ScenarioParsed],
     [text |-> <<"[", "1", "]", " ">>, doc |-> Arr(<<Num(1)>>)],
     [text |-> <<"1">>, doc |-> Num(1)]}

IsJson(t) == \E e \in JsonTable : e.text = t
JsonLoads(t) == (CHOOSE e \in JsonTable : e.text = t).doc

-----------------------------------------------------------------------------
(* main: stages, the exceptions their calls raise, the handlers around them *)

Stages ==
    <<"load_schema", "load_document", "strip", "parse", "validate",
      "export_ods", "export_latex">>

\* what the calls of a stage can raise; "ok" is normal completion
Raises(stage) ==
    CASE stage = "load_schema" ->
            {"FileNotFoundError", "JSONDecodeError", "PermissionError", "UnicodeDecodeError"}
      [] stage = "load_document" ->
            {"FileNotFoundError", "PermissionError", "UnicodeDecodeError"}
      [] stage = "strip" -> {}
      [] stage = "parse" -> {"JSONDecodeError"}
      [] stage = "validate" -> {"ValidationError", "SchemaError"}
      [] stage = "export_ods" -> {"RuntimeError", "PermissionError"}
      [] stage = "export_latex" -> {"PermissionError", "AttributeError"}

\* the exceptions of the try statement's except clauses around a stage
Handled(stage) ==
    CASE stage = "load_schema" -> {"FileNotFoundError", "JSONDecodeError"}
      [] stage = "load_document" -> {"FileNotFoundError"}
      [] stage = "strip" -> {}
      [] stage = "parse" -> {"JSONDecodeError"}
      [] stage = "validate" -> {"ValidationError"}
      [] stage = "export_ods" -> {"RuntimeError"}
      [] stage = "export_latex" -> Raises("export_latex")

\* how a stage ends on outcome e
Ended(stage, e) ==
    IF e = "ok" THEN "ok"
    ELSE IF e \in Handled(stage) THEN "caught"
    ELSE "raised"

\* the statement after a stage
NextStage(stage) ==
    CASE stage = "load_schema" -> "load_document"
      [] stage = "load_document" -> "strip"
      [] stage = "strip" -> "parse"
      [] stage = "parse" -> "validate"
      [] stage = "validate" -> "export_ods"
      [] stage = "export_ods" -> "export_latex"
      [] stage = "export_latex" -> "returned"

\* handlers that print and fall through to the next statement
PcAfter_NoReturn(stage, ended) ==
    IF ended = "raised" THEN "raised" ELSE NextStage(stage)

\* where control goes when a stage has ended: on, out with the exception,
\* or, from a handler, to its return (the export handlers have none)
PcAfter(stage, ended) ==
    IF ended = "ok" THEN NextStage(stage)
    ELSE IF ended = "raised" THEN "raised"
    ELSE IF stage \in {"export_ods", "export_latex"} THEN NextStage(stage)
    ELSE "returned"

LogEntry(stage, e) == [stage |-> stage, error |-> e, ended |-> Ended(stage, e)]

\* the print calls of a stage that ended: the success message of validate
\* and of the exports, the diagnostic of a handler
Prints(stage, e) ==
    IF e = "ok"
    THEN (IF stage \in {"validate", "export_ods", "export_latex"} THEN <<<<stage, "ok">>>> ELSE <<>>)
    ELSE IF e \in Handled(stage) THEN <<<<stage, e>>>>
    ELSE <<>>

-----------------------------------------------------------------------------
(* main *)

MainInit ==
    /\ pc = "start"
    /\ ip \in BOOLEAN
    /\ export_ods \in BOOLEAN
    /\ export_latex \in BOOLEAN
    /\ raw = <<>>
    /\ nocomments = <<>>
    /\ data = Null
    /\ flattened = <<>>
    /\ log = <<>>
    /\ printed = <<>>
    /\ StripIdle
    /\ ExportIdle
    /\ LatexIdle

\* a stage ends on outcome e: it is logged, it prints, control moves
EndStage(stage, e) ==
    /\ log' = Append(log, LogEntry(stage, e))
    /\ printed' = printed \o Prints(stage, e)
    /\ pc' = PcAfter(stage, Ended(stage, e))

\* if ip is None: raise ValueError
CheckArgs ==
    /\ pc = "start"
    /\ pc' = IF ip THEN "load_schema" ELSE "raised"
    /\ UNCHANGED <<ip, export_ods, export_latex, raw, nocomments, data, flattened, log, printed>>
    /\ UNCHANGED <<stripVars, exportVars, latexVars>>

\* with open(schema) as f: schema_data = json.load(f)
LoadSchema ==
    /\ pc = "load_schema"
    /\ \E e \in {"ok"} \cup Raises("load_schema") : EndStage("load_schema", e)
    /\ UNCHANGED <<ip, export_ods, export_latex, raw, nocomments, data, flattened>>
    /\ UNCHANGED <<stripVars, exportVars, latexVars>>

\* with open(ip) as f: raw = f.read()
LoadDocument ==
    /\ pc = "load_document"
    /\ \/ \E t \in RawTexts : raw' = t /\ EndStage("load_document", "ok")
       \/ \E e \in Raises("load_document") : raw' = raw /\ EndStage("load_document", e)
    /\ UNCHANGED <<ip, export_ods, export_latex, nocomments, data, flattened>>
    /\ UNCHANGED <<stripVars, exportVars, latexVars>>

\* nocomments = strip_jsonc_comments(raw)
StripComments ==
    /\ pc = "strip"
    /\ nocomments' = strip_jsonc_comments(raw)
    /\ EndStage("strip", "ok")
    /\ UNCHANGED <<ip, export_ods, export_latex, raw, data, flattened>>
    /\ UNCHANGED <<stripVars, exportVars, latexVars>>

\* data = json.loads(nocomments)
Parse ==
    /\ pc = "parse"
    /\ \/ IsJson(nocomments) /\ data' = JsonLoads(nocomments) /\ EndStage("parse", "ok")
       \/ ~IsJson(nocomments) /\ data' = data /\ EndStage("parse", "JSONDecodeError")
    /\ UNCHANGED <<ip, export_ods, export_latex, raw, nocomments, flattened>>
    /\ UNCHANGED <<stripVars, exportVars, latexVars>>

\* validate(instance=data, schema=schema_data)
Validate ==
    /\ pc = "validate"
    /\ \E e \in {"ok"} \cup Raises("validate") : EndStage("validate", e)
    /\ UNCHANGED <<ip, export_ods, export_latex, raw, nocomments, data, flattened>>
    /\ UNCHANGED <<stripVars, exportVars, latexVars>>

\* if export_ods: export_to_ods(flatten_fields(data), export_ods)
ExportOds ==
    /\ pc = "export_ods"
    /\ \/ /\ export_ods
          /\ flattened' = flatten_fields(data, <<>>)
          /\ \E e \in {"ok"} \cup Raises("export_ods") : EndStage("export_ods", e)
       \/ /\ ~export_ods
          /\ pc' = NextStage("export_ods")
          /\ UNCHANGED <<flattened, log, printed>>
    /\ UNCHANGED <<ip, export_ods, export_latex, raw, nocomments, data>>
    /\ UNCHANGED <<stripVars, exportVars, latexVars>>

\* if export_latex: export_to_latex(data, export_latex)
ExportLatex ==
    /\ pc = "export_latex"
    /\ \/ /\ export_latex
          /\ \E e \in {"ok"} \cup Raises("export_latex") : EndStage("export_latex", e)
       \/ /\ ~export_latex
          /\ pc' = NextStage("export_latex")
          /\ UNCHANGED <<log, printed>>
    /\ UNCHANGED <<ip, export_ods, export_latex, raw, nocomments, data, flattened>>
    /\ UNCHANGED <<stripVars, exportVars, latexVars>>

MainNext ==
    \/ CheckArgs
    \/ LoadSchema
    \/ LoadDocument
    \/ StripComments
    \/ Parse
    \/ Validate
    \/ ExportOds
    \/ ExportLatex

SpecMain == MainInit /\ [][MainNext]_vars
-----------------------------------------------------------------------------
(* Vocabulary of the stripper's properties, defined on texts alone *)

\* the number of newline-separated lines of a text
NumLines(t) == 1 + Cardinality({k \in 1..Len(t) : t[k] = NL})

\* the position of the n-th newline of t; 0 for n = 0, Len(t) + 1 past the last
NewlineAt(t, n) ==
    IF n = 0 THEN 0
    ELSE IF n >= NumLines(t) THEN Len(t) + 1
    ELSE CHOOSE p \in 1..Len(t) :
            /\ t[p] = NL
            /\ Cardinality({q \in 1..p : t[q] = NL}) = n

\* line n (from 1) of t, without its newline
LineAt(t, n) == SubSeq(t, NewlineAt(t, n - 1) + 1, NewlineAt(t, n) - 1)

\* a is b with some characters deleted
RECURSIVE IsSubseq(_, _)
IsSubseq(a, b) ==
    IF a = <<>> THEN TRUE
    ELSE IF b = <<>> THEN FALSE
    ELSE IF a[1] = b[1] THEN IsSubseq(Tail(a), Tail(b))
    ELSE IsSubseq(a, Tail(b))

\* the pair c1 c2 starts at position k (from 1) of s
PairAt(s, k, c1, c2) == k >= 1 /\ k < Len(s) /\ s[k] = c1 /\ s[k + 1] = c2

HasPair(s, c1, c2) == \E k \in 1..Len(s) : PairAt(s, k, c1, c2)

\* no quote and no comment opener anywhere in s
NoOpener(s) ==
    /\ \A k \in 1..Len(s) : s[k] # QUOTE
    /\ ~HasPair(s, SLASH, SLASH)
    /\ ~HasPair(s, SLASH, STAR)

\* s holds no quote or opener and cannot form an opener with what follows it
PlainPrefix(s) == NoOpener(s) /\ (s = <<>> \/ s[Len(s)] # SLASH)

\* the number of consecutive backslashes that end right before position k,
\* none of them before position lo
RECURSIVE BackslashRun(_, _, _)
BackslashRun(s, k, lo) ==
    IF k - 1 >= lo /\ s[k - 1] = BSLASH THEN 1 + BackslashRun(s, k - 1, lo) ELSE 0

\* position k of a string opened at position 1 is escaped
Escaped(s, k) == BackslashRun(s, k, 2) % 2 = 1

\* s is one complete string literal: an opening quote, no unescaped quote
\* inside, an unescaped closing quote
IsStringLit(s) ==
    /\ Len(s) >= 2
    /\ s[1] = QUOTE
    /\ s[Len(s)] = QUOTE
    /\ ~Escaped(s, Len(s))
    /\ \A k \in 2..(Len(s) - 1) : s[k] = QUOTE => Escaped(s, k)

\* the lexer's normal state at the start of a line
NormalState ==
    [i |-> 0, in_string |-> FALSE, escape_next |-> FALSE, cleaned |-> <<>>, brk |-> FALSE]

\* what the lexer keeps of s when it starts on it in the normal state
Kept(s) == ScanLine(s, NormalState).cleaned

Pre(L, p) == SubSeq(L, 1, p)
Mid(L, p, q) == SubSeq(L, p + 1, q)
Post(L, q) == SubSeq(L, q + 1, Len(L))

-----------------------------------------------------------------------------
(* C1 *)

\* C1: the stripped text has exactly as many lines as the input, and each
\* output line is the same-numbered input line with characters deleted.
C1_LineCountPreserved ==
    spc = "done" =>
        /\ NumLines(out) = NumLines(text)
        /\ \A n \in 1..NumLines(text) : IsSubseq(LineAt(out, n), LineAt(text, n))

\* a multi-line input whose comments were deleted, one line down to nothing
C1_Witness ==
    /\ spc = "done"
    /\ NumLines(text) >= 2
    /\ \E n \in 1..NumLines(text) : LineAt(text, n) # <<>> /\ LineAt(out, n) = <<>>
    /\ \E n \in 1..NumLines(text) :
          /\ LineAt(out, n) # <<>>
          /\ Len(LineAt(out, n)) < Len(LineAt(text, n))

-----------------------------------------------------------------------------
(* C2 *)

\* C2: a complete string literal that the lexer meets in the normal state is
\* copied verbatim, quotes included, whatever // or /* or escaped quote it
\* holds, and lexing resumes in the normal state right after its closing quote.
C2_StringsVerbatim ==
    spc = "done" =>
        \A n \in 1..NumLines(text) :
            LET L == LineAt(text, n) IN
            \A p \in 0..Len(L) : \A q \in p..Len(L) :
                (NoOpener(Pre(L, p)) /\ IsStringLit(Mid(L, p, q)))
                    => LineAt(out, n) = Pre(L, p) \o Mid(L, p, q) \o Kept(Post(L, q))

\* a string holding an escaped quote, // and /* was copied whole, and the
\* comment after it removed
C2_Witness ==
    /\ spc = "done"
    /\ \E n \in 1..NumLines(text) :
          LET L == LineAt(text, n) IN
          \E p \in 0..Len(L) : \E q \in p..Len(L) :
              LET S == Mid(L, p, q) IN
              /\ NoOpener(Pre(L, p))
              /\ IsStringLit(S)
              /\ \E k \in 2..(Len(S) - 1) : S[k] = QUOTE
              /\ HasPair(S, SLASH, SLASH)
              /\ HasPair(S, SLASH, STAR)
              /\ Kept(Post(L, q)) # Post(L, q)
              /\ LineAt(out, n) = Pre(L, p) \o S \o Kept(Post(L, q))

-----------------------------------------------------------------------------
(* C3 *)

\* body followed by */ holds no earlier */: the */ is the first one after /*
ClosesFirst(body) ==
    LET c == body \o <<STAR, SLASH>>
    IN  \A k \in 1..Len(c) : PairAt(c, k, STAR, SLASH) => k = Len(body) + 1

\* C3: outside strings exactly the comments go: a // takes the rest of its
\* line with it, a /* closed on its line takes everything through the first */
\* and lexing resumes right after, every other character is kept; the
\* scenario text strips to the scenario result.
C3_ExactlyCommentsRemoved ==
    spc = "done" =>
        /\ \A n \in 1..NumLines(text) :
              LET L == LineAt(text, n) IN
              /\ NoOpener(L) => LineAt(out, n) = L
              /\ \A p \in 0..Len(L) :
                    (PlainPrefix(Pre(L, p)) /\ PairAt(L, p + 1, SLASH, SLASH))
                        => LineAt(out, n) = Pre(L, p)
              /\ \A p \in 0..Len(L) : \A q \in (p + 4)..Len(L) :
                    ( /\ PlainPrefix(Pre(L, p))
                      /\ PairAt(L, p + 1, SLASH, STAR)
                      /\ PairAt(L, q - 1, STAR, SLASH)
                      /\ ClosesFirst(SubSeq(L, p + 3, q - 2)) )
                        => LineAt(out, n) = Pre(L, p) \o Kept(Post(L, q))
        /\ text = ScenarioText => out = ScenarioStripped

\* the scenario text was stripped
C3_Witness == spc = "done" /\ text = ScenarioText /\ out = ScenarioStripped

-----------------------------------------------------------------------------
(* C4 *)

\* C4: every line is lexed from the normal state whatever the line before
\* left open, so a /* with no */ after it on its line removes the rest of
\* that line only and the lines below are lexed as ordinary text.
C4_NoStateAcrossLines ==
    spc = "done" =>
        \A n \in 1..NumLines(text) :
            LET L == LineAt(text, n) IN
            /\ LineAt(out, n) = Kept(L)
            /\ \A p \in 0..Len(L) :
                  ( /\ PlainPrefix(Pre(L, p))
                    /\ PairAt(L, p + 1, SLASH, STAR)
                    /\ ~HasPair(Post(L, p + 2), STAR, SLASH) )
                      => LineAt(out, n) = Pre(L, p)

\* a /* left open on one line, and its */ on a later line came out as text
C4_Witness ==
    /\ spc = "done"
    /\ \E n \in 1..NumLines(text) : \E m \in 1..NumLines(text) :
          LET L == LineAt(text, n) IN
          /\ n < m
          /\ \E p \in 0..Len(L) :
                /\ PlainPrefix(Pre(L, p))
                /\ PairAt(L, p + 1, SLASH, STAR)
                /\ ~HasPair(Post(L, p + 2), STAR, SLASH)
                /\ LineAt(out, n) = Pre(L, p)
          /\ HasPair(LineAt(text, m), STAR, SLASH)
          /\ HasPair(LineAt(out, m), STAR, SLASH)

-----------------------------------------------------------------------------
(* Vocabulary of the flattener's properties, defined on Documents alone *)

IsContainer(d) == d.t = "obj" \/ d.t = "arr"

\* the children of a Document, in declaration or index order
Children(d) ==
    IF d.t = "obj" THEN [i \in 1..Len(d.m) |-> d.m[i].v]
    ELSE IF d.t = "arr" THEN d.e
    ELSE <<>>

\* the segment that names child i (from 1) of d: its key, or [i - 1]
SegmentOf(d, i) ==
    IF d.t = "obj" THEN d.m[i].k ELSE "[" \o ToString(i - 1) \o "]"

\* the number of non-container leaves of a Document
RECURSIVE CountLeaves(_), CountLeavesIn(_)
CountLeaves(d) == IF IsContainer(d) THEN CountLeavesIn(Children(d)) ELSE 1
CountLeavesIn(ds) ==
    IF ds = <<>> THEN 0 ELSE CountLeaves(ds[1]) + CountLeavesIn(Tail(ds))

\* the positions of the children a path walks through from d, or <<0>> where
\* a segment names no child
RECURSIVE PosPath(_, _)
PosPath(d, path) ==
    IF path = <<>> THEN <<>>
    ELSE LET hits == {i \in 1..Len(Children(d)) : SegmentOf(d, i) = path[1]}
         IN  IF hits = {} THEN <<0>>
             ELSE LET i == CHOOSE i \in hits : TRUE
                  IN  <<i>> \o PosPath(Children(d)[i], Tail(path))

\* the Document a sequence of child positions leads to from d
RECURSIVE NodeAt(_, _)
NodeAt(d, pos) == IF pos = <<>> THEN d ELSE NodeAt(Children(d)[pos[1]], Tail(pos))

\* a comes before b in depth-first order, neither a prefix of the other
Before(a, b) ==
    \E k \in 1..Len(a) :
        /\ k <= Len(b)
        /\ \A j \in 1..(k - 1) : a[j] = b[j]
        /\ a[k] < b[k]

\* [([a],1), ([b,c],2), ([b,d,[0]],3), ([b,d,[1]],4)]
ScenarioEntries ==
    <<[path |-> <<"a">>, value |-> Num(1)],
      [path |-> <<"b", "c">>, value |-> Num(2)],
      [path |-> <<"b", "d", "[0]">>, value |-> Num(3)],
      [path |-> <<"b", "d", "[1]">>, value |-> Num(4)]>>

-----------------------------------------------------------------------------
(* C5 *)

\* C5: flatten_fields returns one entry per non-container leaf; each entry's
\* path, read as keys and bracketed indices from the root, leads to a leaf
\* holding the entry's value; the entries come in depth-first order, members
\* in declaration order and elements in index order; the scenario Document
\* flattens to the scenario entries.
C5_FlattenIsDepthFirst ==
    epc \in {"flat", "rows", "saved"} =>
        /\ Len(entries) = CountLeaves(doc)
        /\ \A k \in 1..Len(entries) :
              LET pos == PosPath(doc, entries[k].path) IN
              /\ \A j \in 1..Len(pos) : pos[j] # 0
              /\ Len(pos) = Len(entries[k].path)
              /\ ~IsContainer(NodeAt(doc, pos))
              /\ NodeAt(doc, pos) = entries[k].value
        /\ \A j, k \in 1..Len(entries) :
              j < k => Before(PosPath(doc, entries[j].path), PosPath(doc, entries[k].path))
        /\ doc = ScenarioDoc => entries = ScenarioEntries

\* the scenario Document was flattened
C5_Witness == epc = "flat" /\ doc = ScenarioDoc /\ entries = ScenarioEntries

-----------------------------------------------------------------------------
(* C10 *)

\* the two shades of a column: path column d (from 1), or the value column
ShadesOfLevel(d) ==
    IF d <= Len(LEVEL_COLOR_PALETTES)
    THEN {LEVEL_COLOR_PALETTES[d][1], LEVEL_COLOR_PALETTES[d][2]}
    ELSE {}
ShadesOfValue == {VALUE_COLORS[1], VALUE_COLORS[2]}

\* cells x and y of two consecutive rows of a column are shaded per run:
\* the same shade for the same non-empty text, different shades for
\* different non-empty texts, each one of the column's two shades
ShadedPerRun(x, y, shades) ==
    (x.text # "" /\ y.text # "") =>
        /\ x.color \in shades
        /\ y.color \in shades
        /\ (x.text = y.text) <=> (x.color = y.color)

\* C10 as stated: every path column and the value column is shaded per
\* contiguous run of identical values.
C10_EveryColumnShadedPerRun ==
    \A r \in 1..(Len(table) - 1) :
        /\ \A d \in 1..max_depth :
              ShadedPerRun(table[r].levels[d], table[r + 1].levels[d], ShadesOfLevel(d))
        /\ ShadedPerRun(table[r].value, table[r + 1].value, ShadesOfValue)

\* C10 as amended: each of the first four path columns is shaded per
\* contiguous run of identical values; the value column changes shade on
\* every consecutive non-empty row whether or not the value repeats; path
\* columns beyond the fourth, and empty cells, carry no shade.
C10_PathColumnsShadedPerRun ==
    /\ \A r \in 1..(Len(table) - 1) :
          /\ \A d \in 1..max_depth :
                d <= Len(LEVEL_COLOR_PALETTES) =>
                    ShadedPerRun(table[r].levels[d], table[r + 1].levels[d], ShadesOfLevel(d))
          /\ LET x == table[r].value
                 y == table[r + 1].value
             IN  (x.text # "" /\ y.text # "") =>
                    /\ x.color \in ShadesOfValue
                    /\ y.color \in ShadesOfValue
                    /\ x.color # y.color
    /\ \A r \in 1..Len(table) :
          /\ \A d \in 1..max_depth :
                (d > Len(LEVEL_COLOR_PALETTES) \/ table[r].levels[d].text = "")
                    => table[r].levels[d].color = NoStyle
          /\ table[r].value.text = "" => table[r].value.color = NoStyle

\* a saved table with more than four path columns, a path column holding a
\* run of two rows followed by another value, and a value repeated on
\* consecutive rows under two shades
C10_Witness ==
    /\ epc = "saved"
    /\ max_depth > Len(LEVEL_COLOR_PALETTES)
    /\ \E r \in 1..(Len(table) - 2) :
          /\ table[r].levels[1].text # ""
          /\ table[r].levels[1].text = table[r + 1].levels[1].text
          /\ table[r + 2].levels[1].text # ""
          /\ table[r + 2].levels[1].text # table[r].levels[1].text
          /\ table[r].levels[1].color = table[r + 1].levels[1].color
          /\ table[r + 2].levels[1].color # table[r].levels[1].color
    /\ \E r \in 1..(Len(table) - 1) :
          /\ table[r].value.text # ""
          /\ table[r].value.text = table[r + 1].value.text
          /\ table[r].value.color # table[r + 1].value.color

-----------------------------------------------------------------------------
(* C9 *)

\* the designated replacement of one character
Designated(c) ==
    IF \E k \in 1..Len(replacements) : replacements[k].old = c
    THEN replacements[CHOOSE k \in 1..Len(replacements) : replacements[k].old = c].new
    ELSE <<c>>

\* the concatenation of the designated replacements of the characters of t
RECURSIVE EscapedOnce(_)
EscapedOnce(t) ==
    IF t = <<>> THEN <<>> ELSE Designated(t[1]) \o EscapedOnce(Tail(t))

\* C9: escape_latex returns the concatenation of each character's designated
\* replacement, no character of a replacement escaped a second time.
C9_EscapesEachCharacterOnce ==
    lpc = "returned" => ltext = EscapedOnce(lin)

-----------------------------------------------------------------------------
(* Vocabulary of main's properties *)

Terminated == pc \in {"returned", "raised"}

\* the stage was run (whatever its end)
Ran(stage) == \E k \in 1..Len(log) : log[k].stage = stage

\* the stage was run and failed
Failed(stage) == \E k \in 1..Len(log) : log[k].stage = stage /\ log[k].error # "ok"

\* the stage was run and completed normally
Succeeded(stage) == \E k \in 1..Len(log) : log[k].stage = stage /\ log[k].error = "ok"

\* the place of a stage in the pipeline
Rank(stage) == CHOOSE k \in 1..Len(Stages) : Stages[k] = stage

-----------------------------------------------------------------------------
(* C6 *)

\* C6: with both exports requested and validation passed, a failed
\* spreadsheet export is still followed by an attempt at the LaTeX export.
C6_OdsFailureKeepsLatex ==
    (Terminated /\ export_ods /\ export_latex /\ Succeeded("validate") /\ Failed("export_ods"))
        => Ran("export_latex")

-----------------------------------------------------------------------------
(* C7 *)

\* C7: every failure of a stage is caught and printed, and main returns:
\* no run that was given its ip argument ends with an exception.
C7_NoExceptionEscapes ==
    ip =>
        /\ pc # "raised"
        /\ \A k \in 1..Len(log) :
              log[k].error # "ok" =>
                  \E j \in 1..Len(printed) : printed[j] = <<log[k].stage, log[k].error>>

-----------------------------------------------------------------------------
(* C8 *)

\* C8: the stages run in pipeline order, none twice and none skipped up to
\* validation; a failure up to validation ends the run at once; an export is
\* attempted only after validation has succeeded in the run.
C8_StagesInOrderFailureTerminal ==
    /\ \A j, k \in 1..Len(log) : j < k => Rank(log[j].stage) < Rank(log[k].stage)
    /\ \A k \in 1..Len(log) :
          /\ Rank(log[k].stage) <= Rank("validate") => Rank(log[k].stage) = k
          /\ (Rank(log[k].stage) <= Rank("validate") /\ log[k].error # "ok")
                => (k = Len(log) /\ Terminated)
          /\ log[k].stage \in {"export_ods", "export_latex"}
                => (Succeeded("validate") /\ \A j \in 1..(k - 1) :
                        Rank(log[j].stage) <= Rank("validate") => log[j].error = "ok")
    /\ pc \in {"export_ods", "export_latex"} => Succeeded("validate")
    /\ (pc = "returned" /\ ~Succeeded("validate")) =>
            (log # <<>> /\ log[Len(log)].ended = "caught")

\* a run that failed validation and ended there, both exports requested
C8_Witness ==
    /\ pc = "returned"
    /\ export_ods /\ export_latex
    /\ Failed("validate")
    /\ Len(log) = Rank("validate")
    /\ ~Ran("export_ods") /\ ~Ran("export_latex")

-----------------------------------------------------------------------------
(* C11 *)

\* C11: stripping the stripped text returns it unchanged: every line of the
\* output is kept whole by the lexer, which ends it inside or outside a
\* string exactly as it ended the input line.
C11_StripIdempotent ==
    spc = "done" =>
        /\ strip_jsonc_comments(out) = out
        /\ \A n \in 1..NumLines(text) :
              /\ Kept(LineAt(out, n)) = LineAt(out, n)
              /\ ScanLine(LineAt(out, n), NormalState).in_string
                    = ScanLine(LineAt(text, n), NormalState).in_string

\* a text of several lines that lost a comment from a line keeping a quote
\* and a slash, and whose stripped form strips to itself
C11_Witness ==
    /\ spc = "done"
    /\ NumLines(text) >= 2
    /\ \E n \in 1..NumLines(text) :
          LET L == LineAt(text, n)
              K == LineAt(out, n)
          IN  /\ K # <<>>
              /\ Len(K) < Len(L)
              /\ \E k \in 1..Len(K) : K[k] = QUOTE
              /\ \E k \in 1..Len(K) : K[k] = SLASH
    /\ strip_jsonc_comments(out) = out

=============================================================================
